---- MODULE Spec2Model ----
(***************************************************************************)
(* Model of the C++ historical-data core of petioptrv/automated-trading:   *)
(* bar::BarSize and bar::BarData (dataStructs/bar.h, bar.cpp),             *)
(* timeUtils::getDatesRange (utils/timeUtils.cpp) and                      *)
(* histRetriever::retrieveBarData, getFilePaths (HistoricalRetriever.cpp). *)
(*                                                                         *)
(* Durations (boost::posix_time::time_duration) are integers counting      *)
(* ticks; a date is a day number, day 0 being 2020-03-30; a ptime is a     *)
(* record of a date and a time of day in minutes.                          *)
(***************************************************************************)
EXTENDS Integers, Sequences, FiniteSets, TLC

VARIABLES
    a,      \* the bar::BarSize object under test, or Null when none exists
    out,    \* record of the last BarSize operation and what it produced
    cache,  \* dates whose daily bars are present in histData/SPY/daily.csv
    call,   \* record of the last retrieveBarData call, or Null
    data,   \* the bar::BarData object under test, or Null when none exists
    hist,   \* the Bars passed to data.addBar so far, in order
    gdr,    \* the running or finished call of timeUtils::getDatesRange, or Null
    fp      \* record of the last getFilePaths call, or Null

vars == <<a, out, cache, call, data, hist, gdr, fp>>

Null == [null |-> TRUE]

(***************************************************************************)
(* Bounds of the model.                                                    *)
(***************************************************************************)
MaxHours == 25
MaxDay == 4
MaxGarbage == 4

(***************************************************************************)
(* boost::posix_time::time_duration.  Boost counts microseconds; the model *)
(* counts milliseconds, which keeps 25 hours inside TLC's integers and     *)
(* still has durations that are not whole seconds.                         *)
(***************************************************************************)
TicksPerSec == 1000

seconds(n) == n * TicksPerSec
minutes(n) == n * 60 * TicksPerSec
hours(n) == n * 3600 * TicksPerSec

\* C++ integer division and remainder truncate toward zero.
TruncDiv(x, y) == IF x >= 0 THEN x \div y ELSE 0 - ((0 - x) \div y)
TruncMod(x, y) == x - y * TruncDiv(x, y)

\* time_duration::hours(), ::minutes(), ::seconds(): the normalised fields.
td_hours(td) == TruncDiv(td, 3600 * TicksPerSec)
td_minutes(td) == TruncMod(TruncDiv(td, 60 * TicksPerSec), 60)
td_seconds(td) == TruncMod(TruncDiv(td, TicksPerSec), 60)

\* std::to_string(int): decimal digits, with a leading minus sign.
Digit == <<"0", "1", "2", "3", "4", "5", "6", "7", "8", "9">>
RECURSIVE DigitsOf(_)
DigitsOf(n) ==
    IF n < 10 THEN Digit[n + 1]
    ELSE DigitsOf(n \div 10) \o Digit[(n % 10) + 1]
to_string(n) == IF n < 0 THEN "-" \o DigitsOf(0 - n) ELSE DigitsOf(n)

(***************************************************************************)
(* The durations the operations are tried on: around each unit of the      *)
(* label (second, minute, hour, day), whole and fractional multiples of    *)
(* it, the 24 hour limit and its neighbours, zero and negative durations.  *)
(***************************************************************************)
HalfSec == TicksPerSec \div 2
Durations ==
    { seconds(s) + f : s \in {0, 1, 5, 59}, f \in {0, HalfSec} }
    \cup { minutes(m) + seconds(s) : m \in {1, 5, 59}, s \in {0, 1, 30} }
    \cup { hours(h) + minutes(m) : h \in {1, 2, 4, 23}, m \in {0, 1, 30} }
    \cup { hours(h) + f : h \in 24..MaxHours, f \in {0 - 1, 0, 1} }
    \cup { 0 - 1, 0 - seconds(5), 0 - hours(1), 0 - hours(MaxHours) }
Strings == {"", " time "}

(***************************************************************************)
(* bar::BarSize                                                            *)
(***************************************************************************)
\* BarSize::validateBarSize: the exception it throws, or "none".
validateBarSize_ge(barSize) ==
    IF barSize >= hours(24) THEN "invalid_argument" ELSE "none"
validateBarSize(barSize) ==
    IF barSize > hours(24) THEN "invalid_argument" ELSE "none"

\* BarSize::BarSize(time_duration): the object, or Null when the constructor throws.
BarSize(barSize) ==
    IF validateBarSize(barSize) = "none" THEN [barSize_ |-> barSize] ELSE Null

\* BarSize::BarSize(const BarSize &): copies barSize_ and validates it again.
BarSizeCopy(other) ==
    IF validateBarSize(other.barSize_) = "none"
    THEN [barSize_ |-> other.barSize_] ELSE Null

\* BarSize::toString
toString_rangeFirst(this) ==
    IF this.barSize_ < minutes(1)
        THEN to_string(td_seconds(this.barSize_)) \o " secs"
    ELSE IF this.barSize_ < hours(1)
        THEN to_string(td_minutes(this.barSize_)) \o " mins"
    ELSE IF this.barSize_ < hours(24)
        THEN to_string(td_hours(this.barSize_)) \o " hours"
    ELSE "1 day"
toString(this) ==
    IF this.barSize_ = seconds(1) THEN "1 sec"
    ELSE IF this.barSize_ < minutes(1)
        THEN to_string(td_seconds(this.barSize_)) \o " secs"
    ELSE IF this.barSize_ = minutes(1) THEN "1 min"
    ELSE IF this.barSize_ < hours(1)
        THEN to_string(td_minutes(this.barSize_)) \o " mins"
    ELSE IF this.barSize_ = hours(1) THEN "1 hour"
    ELSE IF this.barSize_ < hours(24)
        THEN to_string(td_hours(this.barSize_)) \o " hours"
    ELSE "1 day"

\* std::string BarSize::operator+(const std::string &other) const
operatorPlus_member(this, other) == toString(this) \o other
\* std::string bar::operator+(const std::string &first, const BarSize &second)
operatorPlus_free(first, second) == first \o toString(second)
\* void bar::operator+=(std::string &first, const BarSize &second): the new first
operatorPlusEq(first, second) == operatorPlus_free(first, second)

\* The comparisons with a time_duration ...
operatorLt_duration_le(this, duration) == this.barSize_ <= duration
operatorLt_duration(this, duration) == this.barSize_ < duration
operatorLe_duration(this, duration) == this.barSize_ <= duration
operatorGt_duration(this, duration) == this.barSize_ > duration
operatorGe_duration(this, duration) == this.barSize_ >= duration
operatorEq_duration(this, duration) == this.barSize_ = duration
\* ... and with another BarSize.
operatorLt_BarSize(this, other) == this.barSize_ < other.barSize_
operatorLe_BarSize(this, other) == this.barSize_ <= other.barSize_
operatorGt_BarSize(this, other) == this.barSize_ > other.barSize_
operatorGe_BarSize(this, other) == this.barSize_ >= other.barSize_
operatorEq_BarSize(this, other) == this.barSize_ = other.barSize_

(***************************************************************************)
(* The BarSize operations as steps: a BarSize is constructed, then copied, *)
(* concatenated with strings and compared, as testBar.cpp does.            *)
(***************************************************************************)
Valid(d) == BarSize(d) # Null

\* bar::BarSize x(d)
Construct(d) ==
    /\ a' = BarSize(d)
    /\ out' = [op |-> "construct", d |-> d, threw |-> validateBarSize(d)]
    /\ UNCHANGED <<cache, call, data, hist, gdr, fp>>

\* bar::BarSize(x)
CopyConstruct ==
    /\ a # Null
    /\ out' = [op |-> "copy", res |-> BarSizeCopy(a),
               threw |-> validateBarSize(a.barSize_)]
    /\ UNCHANGED <<a, cache, call, data, hist, gdr, fp>>

\* x + s
PlusMember(s) ==
    /\ a # Null
    /\ out' = [op |-> "plusMember", s |-> s, res |-> operatorPlus_member(a, s)]
    /\ UNCHANGED <<a, cache, call, data, hist, gdr, fp>>

\* s + x
PlusFree(s) ==
    /\ a # Null
    /\ out' = [op |-> "plusFree", s |-> s, res |-> operatorPlus_free(s, a)]
    /\ UNCHANGED <<a, cache, call, data, hist, gdr, fp>>

\* s += x
PlusEq(s) ==
    /\ a # Null
    /\ out' = [op |-> "plusEq", s |-> s, res |-> operatorPlusEq(s, a)]
    /\ UNCHANGED <<a, cache, call, data, hist, gdr, fp>>

\* x < y, with y a time_duration (form "duration") or BarSize(y) (form "BarSize")
Lt(form, y) ==
    /\ a # Null
    /\ form = "BarSize" => Valid(y)
    /\ out' = [op |-> "<", form |-> form, y |-> y,
               res |-> IF form = "duration" THEN operatorLt_duration(a, y)
                       ELSE operatorLt_BarSize(a, BarSize(y))]
    /\ UNCHANGED <<a, cache, call, data, hist, gdr, fp>>

\* x <= y
Le(form, y) ==
    /\ a # Null
    /\ form = "BarSize" => Valid(y)
    /\ out' = [op |-> "<=", form |-> form, y |-> y,
               res |-> IF form = "duration" THEN operatorLe_duration(a, y)
                       ELSE operatorLe_BarSize(a, BarSize(y))]
    /\ UNCHANGED <<a, cache, call, data, hist, gdr, fp>>

\* x > y
Gt(form, y) ==
    /\ a # Null
    /\ form = "BarSize" => Valid(y)
    /\ out' = [op |-> ">", form |-> form, y |-> y,
               res |-> IF form = "duration" THEN operatorGt_duration(a, y)
                       ELSE operatorGt_BarSize(a, BarSize(y))]
    /\ UNCHANGED <<a, cache, call, data, hist, gdr, fp>>

\* x >= y
Ge(form, y) ==
    /\ a # Null
    /\ form = "BarSize" => Valid(y)
    /\ out' = [op |-> ">=", form |-> form, y |-> y,
               res |-> IF form = "duration" THEN operatorGe_duration(a, y)
                       ELSE operatorGe_BarSize(a, BarSize(y))]
    /\ UNCHANGED <<a, cache, call, data, hist, gdr, fp>>

\* x == y
Eq(form, y) ==
    /\ a # Null
    /\ form = "BarSize" => Valid(y)
    /\ out' = [op |-> "==", form |-> form, y |-> y,
               res |-> IF form = "duration" THEN operatorEq_duration(a, y)
                       ELSE operatorEq_BarSize(a, BarSize(y))]
    /\ UNCHANGED <<a, cache, call, data, hist, gdr, fp>>

Forms == {"duration", "BarSize"}

InitBar ==
    /\ a = Null
    /\ out = [op |-> "none"]
    /\ cache = {}
    /\ call = Null
    /\ data = Null
    /\ hist = <<>>
    /\ gdr = Null
    /\ fp = Null

NextBar ==
    \/ \E d \in Durations : Construct(d)
    \/ CopyConstruct
    \/ \E s \in Strings : PlusMember(s)
    \/ \E s \in Strings : PlusFree(s)
    \/ \E s \in Strings : PlusEq(s)
    \/ \E form \in Forms, y \in Durations : Lt(form, y)
    \/ \E form \in Forms, y \in Durations : Le(form, y)
    \/ \E form \in Forms, y \in Durations : Gt(form, y)
    \/ \E form \in Forms, y \in Durations : Ge(form, y)
    \/ \E form \in Forms, y \in Durations : Eq(form, y)

SpecBar == InitBar /\ [][NextBar]_vars

(***************************************************************************)
(* histRetriever::retrieveBarData                                          *)
(***************************************************************************)
Days == 0..MaxDay
Symbols == {"SPY", "QQQ"}
\* ptime values: a date and a time of day in minutes (09:00 is 540, 16:30 is 990).
StartTimes == { [date |-> d, tod |-> m] : d \in Days, m \in {0, 540} }
EndTimes == { [date |-> d, tod |-> m] : d \in Days, m \in {0, 990} }
ReqBarSizes == { BarSize(minutes(5)), BarSize(hours(1)), BarSize(hours(24)) }

\* The dates of symbol present in the cache (histData/<symbol>/daily.csv).
CachedDates(symbol) == IF symbol = "SPY" THEN cache ELSE {}

\* What a call of retrieveBarData can do.  The body is empty: it probes no
\* cache file, asks no provider, writes nothing, throws nothing and flows
\* off the end of a function returning bar::BarData, which is undefined
\* behaviour.  The builds either return to the caller, whose BarData was
\* never constructed (its size() is whatever the memory held), or trap.
retrieveBarData(symbol, startDateTime, endDateTime, barSize, includeAfterHours, searchCache, storeToCache) ==
    { [kind |-> "returned", size |-> n, probed |-> {}, fetched |-> {},
       stored |-> {}, error |-> "none"] : n \in 0..MaxGarbage }
    \cup { [kind |-> "crashed", size |-> 0, probed |-> {}, fetched |-> {},
            stored |-> {}, error |-> "none"] }

\* The record of a call: its arguments and what it did.
CallRecord(symbol, startDateTime, endDateTime, barSize, includeAfterHours, searchCache, storeToCache, r) ==
    [symbol |-> symbol, startDateTime |-> startDateTime,
     endDateTime |-> endDateTime, barSize |-> barSize,
     includeAfterHours |-> includeAfterHours, searchCache |-> searchCache,
     storeToCache |-> storeToCache, kind |-> r.kind, size |-> r.size,
     probed |-> r.probed, fetched |-> r.fetched, stored |-> r.stored,
     error |-> r.error]

\* One call: any of the outcomes, recorded with the arguments.
Call(symbol, startDateTime, endDateTime, barSize, includeAfterHours, searchCache, storeToCache) ==
    \E r \in retrieveBarData(symbol, startDateTime, endDateTime, barSize,
                              includeAfterHours, searchCache, storeToCache) :
        /\ call' = CallRecord(symbol, startDateTime, endDateTime, barSize,
                              includeAfterHours, searchCache, storeToCache, r)
        /\ cache' = cache \cup r.stored

\* The first call of a run, with any arguments.
RetrieveBarData ==
    /\ call = Null
    /\ \E symbol \in Symbols, startDateTime \in StartTimes,
          endDateTime \in EndTimes, barSize \in ReqBarSizes,
          includeAfterHours \in BOOLEAN, searchCache \in BOOLEAN,
          storeToCache \in BOOLEAN :
            Call(symbol, startDateTime, endDateTime, barSize,
                 includeAfterHours, searchCache, storeToCache)
    /\ UNCHANGED <<a, out, data, hist, gdr, fp>>

\* The same call again, after the previous one returned.
RetrieveAgain ==
    /\ call # Null
    /\ call.kind = "returned"
    /\ Call(call.symbol, call.startDateTime, call.endDateTime, call.barSize,
            call.includeAfterHours, call.searchCache, call.storeToCache)
    /\ UNCHANGED <<a, out, data, hist, gdr, fp>>

Init ==
    /\ a = Null
    /\ out = [op |-> "none"]
    /\ cache \in SUBSET Days
    /\ call = Null
    /\ data = Null
    /\ hist = <<>>
    /\ gdr = Null
    /\ fp = Null

Next ==
    \/ RetrieveBarData
    \/ RetrieveAgain

Spec == Init /\ [][Next]_vars

(***************************************************************************)
(* Properties of retrieveBarData, checked under Spec.  A call's kind is    *)
(* "returned", "crashed" or "threw" (with the error it threw).             *)
(***************************************************************************)
PtimeLt(p, q) == p.date < q.date \/ (p.date = q.date /\ p.tod < q.tod)

\* The partition units of the half-open range of call c: the dates that
\* hold an instant of it; those in the cache are hits, the others misses.
Units(c) ==
    IF PtimeLt(c.startDateTime, c.endDateTime)
    THEN { d \in c.startDateTime.date..c.endDateTime.date :
             d < c.endDateTime.date \/ c.endDateTime.tod > 0 }
    ELSE {}
HitUnits(c) == Units(c) \cap CachedDates(c.symbol)
MissUnits(c) == Units(c) \ CachedDates(c.symbol)
Daily(c) == operatorEq_duration(c.barSize, hours(24))

\* C1 (as claimed): a call on a valid range whose BarSize is below 24h
\* fails with NotImplemented; it never returns normally.
C1_IntradayNotImplemented ==
    ( /\ call # Null
      /\ PtimeLt(call.startDateTime, call.endDateTime)
      /\ operatorLt_duration(call.barSize, hours(24)) ) =>
        /\ call.kind = "threw"
        /\ call.error = "NotImplemented"

C3_Idempotent ==
    [][ ( /\ call # Null
          /\ PtimeLt(call.startDateTime, call.endDateTime)
          /\ Daily(call)
          /\ call.storeToCache
          /\ call.kind = "returned"
          /\ call' # call ) =>
          /\ call'.kind = "returned"
          /\ call'.size = call.size
          /\ call'.fetched \cap cache' = {} ]_vars

\* C4 (as claimed): SPY from 2020-03-30 09:00 (day 0) to 2020-04-03 16:30
\* (day 4) at 24h with the default flags and every date of the range in
\* the cache returns a series of size 4.
C4_CachedDailyBars ==
    ( /\ call # Null
      /\ call.symbol = "SPY"
      /\ call.startDateTime = [date |-> 0, tod |-> 540]
      /\ call.endDateTime = [date |-> 4, tod |-> 990]
      /\ Daily(call)
      /\ ~call.includeAfterHours /\ call.searchCache /\ call.storeToCache
      /\ (0..4) \subseteq cache ) =>
        /\ call.kind = "returned"
        /\ call.size = 4

\* C5 (as claimed): a call with start >= end fails with InvalidRange,
\* having probed no cache file, fetched nothing and written nothing.
C5_InvalidRange ==
    (call # Null /\ ~PtimeLt(call.startDateTime, call.endDateTime)) =>
        /\ call.kind = "threw"
        /\ call.error = "InvalidRange"
        /\ call.probed = {}
        /\ call.fetched = {}
        /\ call.stored = {}

(***************************************************************************)
(* Properties of bar::BarSize, checked under SpecBar.                      *)
(***************************************************************************)
InBarSizeRange(d) == 0 < d /\ d <= hours(24)
PlusOps == {"plusMember", "plusFree", "plusEq"}
CmpOps == {"<", "<=", ">", ">=", "=="}

\* C6: constructing a BarSize from a duration d with 0 < d <= 24h succeeds
\* and the BarSize compares equal to d; from a d > 24h it throws; copying
\* a BarSize in that range never throws and yields an equal BarSize.
C6_ConstructValidates ==
    /\ (out.op = "construct" /\ InBarSizeRange(out.d)) =>
            /\ out.threw = "none"
            /\ a # Null
            /\ operatorEq_duration(a, out.d)
    /\ (out.op = "construct" /\ out.d > hours(24)) =>
            /\ out.threw = "invalid_argument"
            /\ a = Null
    /\ (out.op = "copy" /\ InBarSizeRange(a.barSize_)) =>
            /\ out.threw = "none"
            /\ out.res # Null
            /\ operatorEq_BarSize(out.res, a)
            /\ operatorEq_BarSize(a, out.res)

\* C6 witness: a BarSize of exactly 24 hours has been constructed.
C6_Witness ==
    /\ out.op = "construct"
    /\ out.d = hours(24)
    /\ a # Null

\* C7 (as claimed): every BarSize that exists, constructed from a duration
\* or by copy, has 0 < duration <= 24h.
C7_DurationInRange ==
    /\ a # Null => InBarSizeRange(a.barSize_)
    /\ (out.op = "copy" /\ out.res # Null) => InBarSizeRange(out.res.barSize_)

\* The labels the claim C8 lists.
ExactLabels ==
    (seconds(1) :> "1 sec") @@ (seconds(5) :> "5 secs") @@
    (minutes(1) :> "1 min") @@ (minutes(5) :> "5 mins") @@
    (hours(1) :> "1 hour") @@ (hours(24) :> "1 day")

\* C8: exactly 1s is labelled "1 sec", 60s "1 min", 1h "1 hour", 24h
\* "1 day", 5s "5 secs" and 5min "5 mins"; BarSize + string yields the
\* label followed by the string, string + BarSize and string += BarSize
\* the string followed by the label.
C8_LabelsAndConcatenation ==
    out.op \in PlusOps =>
        LET label == IF a.barSize_ \in DOMAIN ExactLabels
                     THEN ExactLabels[a.barSize_] ELSE toString(a)
        IN  out.res = IF out.op = "plusMember" THEN label \o out.s
                      ELSE out.s \o label

\* C8 witness: " time " += BarSize(1 min) has produced " time 1 min".
C8_Witness ==
    /\ out.op = "plusEq"
    /\ a.barSize_ = minutes(1)
    /\ out.s = " time "
    /\ out.res = " time 1 min"

\* The label C9 describes: the unit by range, singular exactly when the
\* number displayed is 1.
NumberAndUnit(n, unit) ==
    to_string(n) \o " " \o unit \o (IF n = 1 THEN "" ELSE "s")
ClaimedLabel(d) ==
    IF d < minutes(1) THEN NumberAndUnit(td_seconds(d), "sec")
    ELSE IF d < hours(1) THEN NumberAndUnit(td_minutes(d), "min")
    ELSE IF d < hours(24) THEN NumberAndUnit(td_hours(d), "hour")
    ELSE "1 day"

\* C9 (as claimed): for every BarSize with 0 < duration <= 24h the label is
\* in seconds below 1 minute, minutes below 1 hour, hours below 24h, and
\* the unit is singular exactly when the number displayed is 1.
C9_PluralFollowsNumber ==
    (out.op = "plusMember" /\ out.s = "" /\ InBarSizeRange(a.barSize_)) =>
        out.res = ClaimedLabel(a.barSize_)

\* The comparison named op, of two integers.
Compare(op, x, y) ==
    CASE op = "<" -> x < y
      [] op = "<=" -> x <= y
      [] op = ">" -> x > y
      [] op = ">=" -> x >= y
      [] op = "==" -> x = y
\* The BarSize operator named op, in its time_duration and BarSize overloads.
CompareDuration(op, this, duration) ==
    CASE op = "<" -> operatorLt_duration(this, duration)
      [] op = "<=" -> operatorLe_duration(this, duration)
      [] op = ">" -> operatorGt_duration(this, duration)
      [] op = ">=" -> operatorGe_duration(this, duration)
      [] op = "==" -> operatorEq_duration(this, duration)
CompareBarSize(op, this, other) ==
    CASE op = "<" -> operatorLt_BarSize(this, other)
      [] op = "<=" -> operatorLe_BarSize(this, other)
      [] op = ">" -> operatorGt_BarSize(this, other)
      [] op = ">=" -> operatorGe_BarSize(this, other)
      [] op = "==" -> operatorEq_BarSize(this, other)
ExactlyOne(p, q, r) ==
    (p /\ ~q /\ ~r) \/ (~p /\ q /\ ~r) \/ (~p /\ ~q /\ r)

\* C10: each comparison of a BarSize built from x with a duration y is the
\* comparison of x with y, and is the comparison with BarSize(y) when y
\* constructs; of a < b, a == b, a > b between BarSizes exactly one holds.
C10_ComparisonsDelegate ==
    out.op \in CmpOps =>
        /\ out.res = Compare(out.op, a.barSize_, out.y)
        /\ Valid(out.y) =>
            /\ CompareDuration(out.op, a, out.y)
                   = CompareBarSize(out.op, a, BarSize(out.y))
            /\ ExactlyOne(operatorLt_BarSize(a, BarSize(out.y)),
                          operatorEq_BarSize(a, BarSize(out.y)),
                          operatorGt_BarSize(a, BarSize(out.y)))

\* C10 witness: BarSize(2h) >= 2h has been evaluated and is true.
C10_Witness ==
    /\ out.op = ">="
    /\ out.form = "duration"
    /\ a.barSize_ = hours(2)
    /\ out.y = hours(2)
    /\ out.res = TRUE

(***************************************************************************)
(* bar::BarData: a std::map from ptime to Bar, and the BarSize.            *)
(***************************************************************************)
MaxBars == 3
MaxStamp == 2

\* The Bars the tests insert: a timestamp and the prices, volume and count.
Stamps == 0..MaxStamp
Bars ==
    { [dateTime |-> t, high |-> c + 1, low |-> c - 1, open |-> c, close |-> c,
       wap |-> c, volume |-> v, count |-> 10] :
         t \in Stamps, c \in {179, 180}, v \in {12341234} }

\* BarData::BarData(const time_duration &) and BarData::BarData(const BarSize &):
\* an empty map and barSize_, or Null when constructing barSize_ throws.
BarData(barSize) ==
    IF validateBarSize(barSize) = "none"
    THEN [bars |-> <<>>, barSize_ |-> BarSize(barSize)] ELSE Null

\* std::map::operator[] followed by assignment: bars[bar.dateTime] = bar
addBar_insert(this, bar) ==
    [this EXCEPT !.bars =
        [t \in DOMAIN this.bars \cup {bar.dateTime} |->
            IF t \in DOMAIN this.bars THEN this.bars[t] ELSE bar]]
addBar(this, bar) ==
    [this EXCEPT !.bars =
        [t \in DOMAIN this.bars \cup {bar.dateTime} |->
            IF t = bar.dateTime THEN bar ELSE this.bars[t]]]

\* BarData::size
size(this) == Cardinality(DOMAIN this.bars)

\* BarData::barSize
BarData_barSize(this) == this.barSize_

\* bar::BarData bars(d)
ConstructBarData(d) ==
    /\ data' = BarData(d)
    /\ hist' = <<>>
    /\ UNCHANGED <<a, out, cache, call, gdr, fp>>

\* bars.addBar(bar)
AddBar(bar) ==
    /\ data # Null
    /\ Len(hist) < MaxBars
    /\ data' = addBar(data, bar)
    /\ hist' = Append(hist, bar)
    /\ UNCHANGED <<a, out, cache, call, gdr, fp>>

InitData ==
    /\ a = Null
    /\ out = [op |-> "none"]
    /\ cache = {}
    /\ call = Null
    /\ data = Null
    /\ hist = <<>>
    /\ gdr = Null
    /\ fp = Null

NextData ==
    \/ \E d \in {minutes(5), hours(24), hours(MaxHours)} : ConstructBarData(d)
    \/ \E bar \in Bars : AddBar(bar)

SpecData == InitData /\ [][NextData]_vars

(***************************************************************************)
(* Properties of bar::BarData, checked under SpecData.                     *)
(***************************************************************************)
\* The timestamps inserted so far, and the last Bar inserted with timestamp t.
StampsInserted == { hist[i].dateTime : i \in 1..Len(hist) }
LastInserted(t) ==
    LET last == CHOOSE i \in 1..Len(hist) :
                    /\ hist[i].dateTime = t
                    /\ \A j \in (i + 1)..Len(hist) : hist[j].dateTime # t
    IN  hist[last]

\* C11: a BarData is empty when constructed; after any sequence of addBar
\* calls size() is the number of distinct timestamps inserted and the Bar
\* held for each timestamp is the one inserted last for it.
C11_LastWriteWins ==
    data # Null =>
        /\ hist = <<>> => size(data) = 0
        /\ size(data) = Cardinality(StampsInserted)
        /\ DOMAIN data.bars = StampsInserted
        /\ \A t \in StampsInserted : data.bars[t] = LastInserted(t)

\* C11 witness: two different Bars with the same timestamp were inserted,
\* and the series holds one Bar, the second.
C11_Witness ==
    /\ data # Null
    /\ Len(hist) = 2
    /\ hist[1].dateTime = hist[2].dateTime
    /\ hist[1] # hist[2]
    /\ size(data) = 1
    /\ data.bars[hist[2].dateTime] = hist[2]

(***************************************************************************)
(* timeUtils::getDatesRange.  The date overload runs its loop one          *)
(* iteration per step; the ptime overload takes the dates of its arguments *)
(* and runs the date overload.                                             *)
(***************************************************************************)
\* A date as the ptime of its midnight.
Midnight(d) == [date |-> d, tod |-> 0]

\* The loop condition: currentDate < end
loopCondition_le(currentDate, end) == currentDate <= end
loopCondition(currentDate, end) == currentDate < end

\* Entry of getDatesRange(const date &start, const date &end), called with the
\* dates startDate and endDate on behalf of the arguments start and end.
Enter(overload, start, end, startDate, endDate) ==
    [pc |-> "loop", overload |-> overload, start |-> start, end |-> end,
     startDate |-> startDate, endDate |-> endDate,
     currentDate |-> startDate, datesRange |-> <<>>]

\* No call of getDatesRange is running.
NotInGetDatesRange == IF gdr = Null THEN TRUE ELSE gdr.pc = "done"

\* getDatesRange(const date &start, const date &end) is called.
GetDatesRange_date ==
    /\ NotInGetDatesRange
    /\ \E start \in Days, end \in Days :
          gdr' = Enter("date", Midnight(start), Midnight(end), start, end)
    /\ UNCHANGED <<a, out, cache, call, data, hist, fp>>

\* getDatesRange(const ptime &start, const ptime &end) is called.
GetDatesRange_ptime ==
    /\ NotInGetDatesRange
    /\ \E start \in StartTimes, end \in EndTimes :
          gdr' = Enter("ptime", start, end, start.date, end.date)
    /\ UNCHANGED <<a, out, cache, call, data, hist, fp>>

\* One test of the loop condition: push currentDate and add a day, or return.
LoopStep ==
    /\ gdr # Null
    /\ gdr.pc = "loop"
    /\ IF loopCondition(gdr.currentDate, gdr.endDate)
       THEN gdr' = [gdr EXCEPT !.datesRange = Append(@, gdr.currentDate),
                               !.currentDate = @ + 1]
       ELSE gdr' = [gdr EXCEPT !.pc = "done"]
    /\ UNCHANGED <<a, out, cache, call, data, hist, fp>>

InitDates ==
    /\ a = Null
    /\ out = [op |-> "none"]
    /\ cache = {}
    /\ call = Null
    /\ data = Null
    /\ hist = <<>>
    /\ gdr = Null
    /\ fp = Null

NextDates ==
    \/ GetDatesRange_date
    \/ GetDatesRange_ptime
    \/ LoopStep

SpecDates == InitDates /\ [][NextDates]_vars

(***************************************************************************)
(* Properties of getDatesRange, checked under SpecDates.                   *)
(***************************************************************************)
\* The number of days from the date of start to the date of end, 0 if none.
DaysBetween(start, end) ==
    IF end.date > start.date THEN end.date - start.date ELSE 0

\* C12: getDatesRange terminates (the loop has run as many times as it has
\* pushed dates, at most N) and returns exactly N dates, N being the days
\* from start's date to end's date (0 when start is not before end): the
\* first is start's date, each next one a day later, the last end's date
\* minus one day; both overloads return this list.
C12_DatesRange ==
    gdr # Null =>
        LET n == DaysBetween(gdr.start, gdr.end)
        IN  /\ Len(gdr.datesRange) <= n
            /\ gdr.currentDate = gdr.start.date + Len(gdr.datesRange)
            /\ \A i \in 1..Len(gdr.datesRange) :
                  gdr.datesRange[i] = gdr.start.date + i - 1
            /\ gdr.pc = "done" =>
                  /\ Len(gdr.datesRange) = n
                  /\ n > 0 => /\ gdr.datesRange[1] = gdr.start.date
                              /\ gdr.datesRange[n] = gdr.end.date - 1

\* C12 witness: the ptime overload has returned the 4 dates from day 0 to
\* day 3 for the range from day 0 00:00 to day 4 00:00.
C12_Witness ==
    /\ gdr # Null
    /\ gdr.pc = "done"
    /\ gdr.overload = "ptime"
    /\ gdr.start = Midnight(0)
    /\ gdr.end = Midnight(4)
    /\ gdr.datesRange = <<0, 1, 2, 3>>

\* C13 (as claimed): for start < end, the date of every instant t with
\* start <= t < end is in getDatesRange(start, end), the date of end
\* included when end is not on a day boundary.
C13_DatesCoverRange ==
    ( /\ gdr # Null
      /\ gdr.pc = "done"
      /\ gdr.overload = "ptime"
      /\ PtimeLt(gdr.start, gdr.end) ) =>
        \A d \in Units([startDateTime |-> gdr.start, endDateTime |-> gdr.end]) :
            \E i \in 1..Len(gdr.datesRange) : gdr.datesRange[i] = d

(***************************************************************************)
(* histRetriever::getFilePaths                                             *)
(***************************************************************************)
\* What the caller can find in a std::vector<std::string> that was never
\* constructed: some number of strings of unknown content.
IndeterminatePaths == { [i \in 1..n |-> "?"] : n \in 0..MaxGarbage }

\* What a call of getFilePaths can do.  With a BarSize of 24 hours it builds
\* the local paths and flows off the end of a function returning a vector,
\* without a return statement: undefined behaviour; the builds return to the
\* caller, whose vector was never constructed, or trap.  Below 24 hours it
\* throws std::logic_error.
getFilePaths(symbol, startDateTime, endDateTime, barSize) ==
    LET basePath == "../histData/" \o symbol \o "/"
    IN  IF operatorGe_duration(barSize, hours(24))
        THEN LET paths == <<basePath \o "daily.csv">>
             IN  { [kind |-> "returned", paths |-> g, local |-> paths,
                    error |-> "none"] : g \in IndeterminatePaths }
                 \cup { [kind |-> "crashed", paths |-> <<>>, local |-> paths,
                         error |-> "none"] }
        ELSE { [kind |-> "threw", paths |-> <<>>, local |-> <<>>,
                error |-> "logic_error"] }

\* getFilePaths is called, with any arguments.
GetFilePaths ==
    /\ IF fp = Null THEN TRUE ELSE fp.kind # "crashed"
    /\ \E symbol \in Symbols, startDateTime \in StartTimes,
          endDateTime \in EndTimes, barSize \in ReqBarSizes :
          \E r \in getFilePaths(symbol, startDateTime, endDateTime, barSize) :
            fp' = [symbol |-> symbol, startDateTime |-> startDateTime,
                   endDateTime |-> endDateTime, barSize |-> barSize,
                   kind |-> r.kind, paths |-> r.paths, local |-> r.local,
                   error |-> r.error]
    /\ UNCHANGED <<a, out, cache, call, data, hist, gdr>>

InitPaths ==
    /\ a = Null
    /\ out = [op |-> "none"]
    /\ cache = {}
    /\ call = Null
    /\ data = Null
    /\ hist = <<>>
    /\ gdr = Null
    /\ fp = Null

NextPaths == GetFilePaths

SpecPaths == InitPaths /\ [][NextPaths]_vars

(***************************************************************************)
(* Properties of getFilePaths, checked under SpecPaths.                    *)
(***************************************************************************)
\* C14 (as claimed): with a BarSize of 24h getFilePaths returns to its
\* caller the list holding the one path <root>/<symbol>/daily.csv, the
\* root being ../histData; with a BarSize below 24h it throws the logic
\* error and returns no path.
C14_FilePaths ==
    fp # Null =>
        /\ operatorEq_duration(fp.barSize, hours(24)) =>
              /\ fp.kind = "returned"
              /\ fp.paths = <<"../histData/" \o fp.symbol \o "/daily.csv">>
        /\ operatorLt_duration(fp.barSize, hours(24)) =>
              /\ fp.kind = "threw"
              /\ fp.error = "logic_error"
              /\ fp.paths = <<>>

(***************************************************************************)
(* The label as the name of a cache folder, checked under SpecBar.         *)
(***************************************************************************)
\* C15 (as claimed): two BarSizes with different durations, both with
\* 0 < duration <= 24h, never have the same label.
C15_LabelInjective ==
    (out.op = "plusMember" /\ out.s = "" /\ InBarSizeRange(a.barSize_)) =>
        \A d \in Durations :
            (InBarSizeRange(d) /\ d # a.barSize_) =>
                operatorPlus_member(BarSize(d), "") # out.res

====
